---- MODULE Spec2Model ----
(***************************************************************************)
(* Model of wirepas_backend_client: the MySQL observer (api/mysql/         *)
(* handlers.py): run(), the single threaded loop, the worker pool, the     *)
(* message router and the supervisor loop.                                 *)
(*                                                                         *)
(* Process 0 is the process that calls MySQLObserver.run(); processes      *)
(* 1..MaxNWorkers-1 are the multiprocessing.Process children created by    *)
(* pool_on_data_received.  A WorkItem is a natural number 1..MaxItems, 0   *)
(* stands for "no message".  The MySQL connector (connect, ping, close and *)
(* the put_ writes) is outside this file: a call of it either returns or   *)
(* raises, which the actions take as their input "ok".                     *)
(*                                                                         *)
(* InventorySpec is one Inventory object (management/inventory.py) and the *)
(* calls a client makes on it: add, remove, reset, wait and the predicates.*)
(* The two parts share no state; each specification leaves the variables   *)
(* of the other part as they are.                                          *)
(***************************************************************************)
EXTENDS Integers, Sequences, FiniteSets

\* ------------------------------------------------------------------ bounds
\* The largest n_workers given to run(); the pool has n_workers - 1 workers.
MaxNWorkers == 3
\* The number of messages the decoder puts on the queue in a run.
MaxItems == 2

\* --------------------------------------------------------------- constants
Main == 0
WorkerIds == 1..(MaxNWorkers - 1)
Procs == {Main} \cup WorkerIds
Items == 1..MaxItems
NoMessage == 0

\* Python's None, and a value that is there.  An optional value is a tuple
\* of length 0 (None) or 1.  multiprocessing.Process(...).start() has no
\* return statement, so the value kept in workers[pseq] is None.
None == << >>
Some(v) == << v >>

\* math.inf
inf == << "math", "inf" >>

\* The message classes imported at handlers.py:24-30, plus a message type
\* none of the isinstance tests matches.
Kinds ==
    { "DiagnosticsMessage", "AdvertiserMessage", "TestNWMessage",
      "BootDiagnosticsMessage", "NeighborDiagnosticsMessage",
      "NodeDiagnosticsMessage", "TrafficDiagnosticsMessage", "GenericMessage" }

\* The classes the pool is run on: one for each way through the isinstance
\* chain (its first branch, a later branch, no branch at all).  RouterSpec
\* runs the router on every class.
SomeKinds == { "DiagnosticsMessage", "BootDiagnosticsMessage", "GenericMessage" }

VARIABLES
    exit_signal,      \* multiprocessing.Event shared by every process
    parallel,         \* self.parallel after run() read its kwargs
    n_workers,        \* self.n_workers after run() read its kwargs
    pc,               \* position of each process in its code
    workers,          \* the dict built by pool_on_data_received: pseq -> handle
    connected,        \* per MySQL object: its connection is open
    mysql,            \* per process: the MySQL object its code goes through
                      \*   (self.mysql in run(), the local mysql in work)
    message,          \* per process: the message it holds (0: none)
    rx_queue,         \* the shared inbound queue (sequence of items)
    produced,         \* number of items the external decoder has put so far
    received_packets, \* item -> rows written by put_to_received_packets
    tables,           \* item -> sequence of the kind-specific writes made for it
    class,            \* item -> the class the isinstance tests found it to be
    outcome,          \* item -> how its _map_message call ended: "none",
                      \*   "mapped" (it returned), "logged" (it raised and a
                      \*   worker logged that, l.163), "raised" (it raised in
                      \*   the single threaded loop)
    taken,            \* item -> number of get() calls that returned it
    \* ---- management/inventory.py: the fields of one Inventory object
    target_nodes,         \* self._target_nodes
    target_otap_sequence, \* self._target_otap_sequence (None or Some(n))
    target_frequency,     \* self._target_frequency (inf or Some(n))
    start_delay,          \* self._start_delay (None or Some(seconds))
    maximum_duration,     \* self._maximum_duration (None or Some(seconds))
    nodes,                \* self._nodes
    index,                \* self._index: address -> NodeRecord
    start,                \* self._start (None or Some(time))
    deadline,             \* self._deadline (None or Some(time))
    finish,               \* self._finish (None or Some(time))
    sequence,             \* self._sequence (None or Some(round))
    now,                  \* what datetime.datetime.utcnow() returns
    ret                   \* what the last call made on the object returned
                          \*   or raised; for the predicates, one field each

observer ==
    << exit_signal, parallel, n_workers, pc, workers, connected, mysql,
       message, rx_queue, produced, received_packets, tables, class, outcome,
       taken >>

targets == << target_nodes, target_otap_sequence, target_frequency >>
window == << start_delay, maximum_duration >>
session == << nodes, index, start, deadline, finish >>
inventory == << targets, window, session, sequence, now, ret >>

vars == << observer, inventory >>

backend == << received_packets, tables, class, outcome >>
config == << parallel, n_workers >>

\* ------------------------------------------------------------ the router
\* The isinstance chain of _map_message, in source order.
Chain ==
    << << "DiagnosticsMessage", "put_diagnostics" >>,
       << "AdvertiserMessage", "put_advertiser" >>,
       << "TestNWMessage", "put_testnw_measurements" >>,
       << "BootDiagnosticsMessage", "put_boot_diagnostics" >>,
       << "NeighborDiagnosticsMessage", "put_neighbor_diagnostics" >>,
       << "NodeDiagnosticsMessage", "put_node_diagnostics" >>,
       << "TrafficDiagnosticsMessage", "put_traffic_diagnostics" >> >>

\* isinstance(message, cls).  The message classes live in the messages
\* package; the WorkItem kinds are a closed set of distinct kinds, none a
\* subclass of another.
IsInstance(k, cls) == k = cls

RECURSIVE FirstMatch(_, _)
FirstMatch(k, i) ==
    IF i > Len(Chain) THEN "none"
    ELSE IF IsInstance(k, Chain[i][1]) THEN Chain[i][2]
    ELSE FirstMatch(k, i + 1)

\* KindWrite with the test for DiagnosticsMessage catching the other
\* diagnostics classes too.
KindWrite_DiagnosticsFirst(k) ==
    IF k \in { "BootDiagnosticsMessage", "NeighborDiagnosticsMessage",
               "NodeDiagnosticsMessage", "TrafficDiagnosticsMessage" }
    THEN "put_diagnostics"
    ELSE FirstMatch(k, 1)

\* The kind-specific write _map_message issues for a message of class k
\* ("none": no branch matches, only the received write is made).
KindWrite(k) == FirstMatch(k, 1)

\* ---------------------------------------------------- inventory: values
\* Bounds of the inventory sessions.
\* Node addresses are 1..MaxAddress.
MaxAddress == 2
\* The number of events the index holds, over all its NodeRecords.
MaxEvents == 2

\* The clock of a session runs from 0 to MaxTime seconds.
MaxTime == 3

Addresses == 1..MaxAddress

\* The arguments add() is called with: rss and otap_sequence are lists or
\* None (the default of both), timestamp is a number.
RssInputs == { None, Some(<< >>), Some(<< 5 >>) }
OtapInputs == { None, Some(<< >>), Some(<< 0, 1 >>), Some(<< 1, 2 >>) }
Timestamps == { Some(7) }

\* The arguments Inventory(...) is built with.
TargetNodeArgs == { None, Some({ 1 }), Some({ 1, 2 }) }
TargetOtapArgs == { None, Some(0), Some(1) }
TargetFrequencyArgs == { None, Some(2) }
\* start_delay and maximum_duration: both left out, or both given.
WindowArgs == { << None, None >>, << Some(0), Some(1) >> }
\* The windows of the timed sessions: each of the two left out, 0 or 1.
DelayArgs == { None, Some(0), Some(1) }
DurationArgs == { None, Some(0), Some(1) }
\* The observations of the timed sessions: rss left out or given, at one
\* of two timestamps.
SessionRss == { None, Some(<< 5 >>) }
SessionTimestamps == { Some(7), Some(8) }
\* The values a client gives the sequence property.
SequenceArgs == { Some(1) }

\* min(), max() and any() of Python, on a list of numbers.
Min(l) == CHOOSE x \in { l[i] : i \in 1..Len(l) } :
            \A j \in 1..Len(l) : x <= l[j]
Max(l) == CHOOSE x \in { l[i] : i \in 1..Len(l) } :
            \A j \in 1..Len(l) : x >= l[j]
Any(l) == \E i \in 1..Len(l) : l[i] # 0

\* add, l.173-181: "otap_min and otap_max" are both true: otap_sequence
\* is a list that is not empty (l.176), and neither its least nor its
\* greatest element is 0.
OtapMinMaxTrue(otap) ==
    /\ otap # None
    /\ otap[1] # << >>
    /\ Min(otap[1]) # 0
    /\ Max(otap[1]) # 0

\* add, l.181-198: the branch of the if chain that add() takes.  any(None)
\* raises TypeError; "and" and "elif" evaluate from left to right and stop
\* at the first operand that decides.
EventBranch(rss, otap) ==
    IF OtapMinMaxTrue(otap) /\ rss = None THEN "TypeError"
    ELSE IF OtapMinMaxTrue(otap) /\ Any(rss[1]) THEN "rss_otap"
    ELSE IF rss = None THEN "TypeError"
    ELSE IF Any(rss[1]) THEN "rss"
    ELSE IF otap = None THEN "TypeError"
    ELSE IF Any(otap[1]) THEN "otap"
    ELSE "plain"

\* add, l.182-198: the dict built in each branch.
Event(rss, otap) ==
    CASE EventBranch(rss, otap) = "rss_otap" ->
           [ rss |-> rss[1], otap |-> otap[1],
             otap_max |-> Max(otap[1]), otap_min |-> Min(otap[1]) ]
      [] EventBranch(rss, otap) = "rss" -> [ rss |-> rss[1] ]
      [] EventBranch(rss, otap) = "otap" ->
           [ otap |-> otap[1],
             otap_max |-> Max(otap[1]), otap_min |-> Min(otap[1]) ]
      [] EventBranch(rss, otap) = "plain" ->
           [ rss |-> rss[1], otap |-> otap[1] ]

\* Inventory.__init__, l.60-82.
InventoryNew(tn, tos, tf, sd, md) ==
    /\ target_nodes = (IF tn = None THEN {} ELSE tn[1])
    /\ target_otap_sequence = tos
    /\ target_frequency = (IF tf = None THEN inf ELSE tf)
    /\ start_delay = sd
    /\ maximum_duration = md
    /\ nodes = {}
    /\ index = << >>
    /\ start = None
    /\ deadline = None
    /\ finish = None
    /\ sequence = None
    /\ now = 0
    /\ ret = [ result |-> "None" ]

\* --------------------------------------------------------------- initial
\* MySQLObserver.__init__ and the kwargs of run().
ObserverInit ==
    /\ exit_signal = FALSE
    /\ parallel \in BOOLEAN
    /\ n_workers \in 1..MaxNWorkers
    /\ pc = [p \in Procs |-> IF p = Main THEN "run" ELSE "unborn"]
    /\ workers = << >>
    /\ connected = [p \in Procs |-> FALSE]
    /\ mysql = [p \in {Main} |-> Main]
    /\ message = [p \in Procs |-> NoMessage]
    /\ rx_queue = << >>
    /\ produced = 0
    /\ received_packets = [i \in Items |-> 0]
    /\ tables = [i \in Items |-> << >>]
    /\ class = [i \in Items |-> ""]
    /\ outcome = [i \in Items |-> "none"]
    /\ taken = [i \in Items |-> 0]

\* The observer before run(), next to an Inventory() built with the
\* default of every argument.
Init ==
    /\ ObserverInit
    /\ InventoryNew(None, None, None, None, None)

\* ----------------------------------------------------------- environment
\* The external decoder puts a typed message on the shared queue.
Produce ==
    /\ produced < MaxItems
    /\ produced' = produced + 1
    /\ rx_queue' = Append(rx_queue, produced + 1)
    /\ UNCHANGED << exit_signal, config, inventory, pc, workers, connected,
                    mysql, message, backend, taken >>

\* The external orchestrator requests the stop.
OrchestratorStop ==
    /\ ~exit_signal
    /\ exit_signal' = TRUE
    /\ UNCHANGED << config, inventory, pc, workers, connected, mysql, message,
                    rx_queue, produced, backend, taken >>

\* -------------------------------------------------------------------- run
\* run(), l.197-212: connect the pool's own connection, then pick the mode.
RunConnect(ok) ==
    /\ pc[Main] = "run"
    /\ IF ok
       THEN /\ connected' = [connected EXCEPT ![mysql[Main]] = TRUE]
            /\ pc' = [pc EXCEPT ![Main] = IF parallel THEN "pool" ELSE "head"]
            /\ UNCHANGED exit_signal
       ELSE /\ exit_signal' = TRUE
            /\ pc' = [pc EXCEPT ![Main] = "raised"]
            /\ UNCHANGED connected
    /\ UNCHANGED << config, inventory, mysql, workers, message, rx_queue,
                    produced, backend, taken >>

\* RunClose clearing the event for a next run.
RunClose_ClearsSignal ==
    /\ pc[Main] = "close"
    /\ connected' = [connected EXCEPT ![mysql[Main]] = FALSE]
    /\ pc' = [pc EXCEPT ![Main] = "returned"]
    /\ exit_signal' = FALSE
    /\ UNCHANGED << config, inventory, mysql, workers, message, rx_queue,
                    produced, backend, taken >>

\* run(), l.214: self.mysql.close() after either loop returned.
RunClose ==
    /\ pc[Main] = "close"
    /\ connected' = [connected EXCEPT ![mysql[Main]] = FALSE]
    /\ pc' = [pc EXCEPT ![Main] = "returned"]
    /\ UNCHANGED << exit_signal, config, inventory, mysql, workers, message,
                    rx_queue, produced, backend, taken >>

\* ------------------------------------------------------- _map_message
\* AfterError with an except clause that does not catch the error.
AfterError_Uncaught(p) == IF p = Main THEN "raised" ELSE "dead"

\* What becomes of a process whose _map_message call raised: a worker
\* catches and logs the error (l.162-165) and goes back to its loop head;
\* in the single threaded loop nothing catches it, and run() raises.
AfterError(p) == IF p = Main THEN "raised" ELSE "head"
ErrorOutcome(p) == IF p = Main THEN "raised" ELSE "logged"

\* _map_message, l.91: the generic write, made first and for every message.
MapReceived(p, ok) ==
    /\ pc[p] = "map_recv"
    /\ LET m == message[p] IN
       IF ok
       THEN /\ received_packets' = [received_packets EXCEPT ![m] = @ + 1]
            /\ pc' = [pc EXCEPT ![p] = "map_kind"]
            /\ UNCHANGED << message, outcome >>
       ELSE /\ outcome' = [outcome EXCEPT ![m] = ErrorOutcome(p)]
            /\ pc' = [pc EXCEPT ![p] = AfterError(p)]
            /\ message' = [message EXCEPT ![p] = NoMessage]
            /\ UNCHANGED received_packets
    /\ UNCHANGED << exit_signal, config, inventory, workers, connected, mysql,
                    rx_queue, produced, tables, class, taken >>

\* MapKind undoing the received write when the kind-specific write fails.
MapKind_Rollback(p, k, ok) ==
    /\ pc[p] = "map_kind"
    /\ LET m == message[p]
           w == KindWrite(k)
       IN  /\ (w = "none") => ok
           /\ IF ok
              THEN /\ tables' = [tables EXCEPT
                                   ![m] = IF w = "none" THEN @ ELSE Append(@, w)]
                   /\ outcome' = [outcome EXCEPT ![m] = "mapped"]
                   /\ pc' = [pc EXCEPT ![p] = "head"]
                   /\ UNCHANGED received_packets
              ELSE /\ outcome' = [outcome EXCEPT ![m] = ErrorOutcome(p)]
                   /\ pc' = [pc EXCEPT ![p] = AfterError(p)]
                   /\ received_packets' = [received_packets EXCEPT ![m] = 0]
                   /\ UNCHANGED tables
           /\ class' = [class EXCEPT ![m] = k]
    /\ message' = [message EXCEPT ![p] = NoMessage]
    /\ UNCHANGED << exit_signal, config, inventory, workers, connected, mysql,
                    rx_queue, produced, taken >>

\* _map_message, l.92-105, for a message of class k: the first isinstance
\* branch that matches makes its write; no branch matching, _map_message
\* just returns.  (The class of a message plays no part before these tests,
\* so the model draws it here.)
MapKind(p, k, ok) ==
    /\ pc[p] = "map_kind"
    /\ LET m == message[p]
           w == KindWrite(k)
       IN  /\ (w = "none") => ok
           /\ IF ok
              THEN /\ tables' = [tables EXCEPT
                                   ![m] = IF w = "none" THEN @ ELSE Append(@, w)]
                   /\ outcome' = [outcome EXCEPT ![m] = "mapped"]
                   /\ pc' = [pc EXCEPT ![p] = "head"]
              ELSE /\ outcome' = [outcome EXCEPT ![m] = ErrorOutcome(p)]
                   /\ pc' = [pc EXCEPT ![p] = AfterError(p)]
                   /\ UNCHANGED tables
           /\ class' = [class EXCEPT ![m] = k]
    /\ message' = [message EXCEPT ![p] = NoMessage]
    /\ UNCHANGED << exit_signal, config, inventory, workers, connected, mysql,
                    rx_queue, produced, received_packets, taken >>

\* ---------------------------------------------- the single threaded loop
\* on_data_received, l.78: the loop head.
OnDataHead ==
    /\ pc[Main] = "head"
    /\ pc' = [pc EXCEPT ![Main] = IF exit_signal THEN "close" ELSE "get"]
    /\ UNCHANGED << exit_signal, config, inventory, workers, connected, mysql,
                    message, rx_queue, produced, backend, taken >>

\* Dequeue reading the head of the queue without removing it.
Dequeue_Peek(p, next) ==
    IF rx_queue = << >>
    THEN /\ pc' = [pc EXCEPT ![p] = "head"]
         /\ UNCHANGED << message, rx_queue, taken >>
    ELSE /\ message' = [message EXCEPT ![p] = Head(rx_queue)]
         /\ taken' = [taken EXCEPT ![Head(rx_queue)] = @ + 1]
         /\ pc' = [pc EXCEPT ![p] = next]
         /\ UNCHANGED rx_queue

\* rx_queue.get(block=True, timeout=...): the head of the queue, or
\* queue.Empty when nothing arrived within the timeout.
Dequeue(p, next) ==
    IF rx_queue = << >>
    THEN /\ pc' = [pc EXCEPT ![p] = "head"]
         /\ UNCHANGED << message, rx_queue, taken >>
    ELSE /\ message' = [message EXCEPT ![p] = Head(rx_queue)]
         /\ rx_queue' = Tail(rx_queue)
         /\ taken' = [taken EXCEPT ![Head(rx_queue)] = @ + 1]
         /\ pc' = [pc EXCEPT ![p] = next]

\* on_data_received, l.80-86.
OnDataGet ==
    /\ pc[Main] = "get"
    /\ Dequeue(Main, "map_recv")
    /\ UNCHANGED << exit_signal, config, inventory, workers, connected, mysql,
                    produced, backend >>

\* -------------------------------------------------------------- the pool
\* pool_on_data_received, l.171-181: one more child process is created and
\* started; what start() returned is kept in workers[pseq].
PoolSpawn ==
    /\ pc[Main] = "pool"
    /\ Len(workers) + 1 < n_workers
    /\ workers' = Append(workers, None)
    /\ pc' = [pc EXCEPT ![Len(workers) + 1] = "start"]
    /\ UNCHANGED << exit_signal, config, inventory, connected, mysql, message,
                    rx_queue, produced, backend, taken >>

\* pool_on_data_received, l.183: range(1, n_workers) is exhausted.
PoolWait ==
    /\ pc[Main] = "pool"
    /\ Len(workers) + 1 >= n_workers
    /\ pc' = [pc EXCEPT ![Main] = "wait_head"]
    /\ UNCHANGED << exit_signal, config, inventory, workers, connected, mysql,
                    message, rx_queue, produced, backend, taken >>

\* NewMySQL handing the worker the pool's own object, self.mysql.
NewMySQL_SelfMysql(w) == Main

\* work, l.112-120: MySQL(...) builds a new connection object, which the
\* local name mysql of this worker refers to from then on.  A connection
\* object is named by the process that built it.
NewMySQL(w) == w

\* work, l.112-125: the worker builds its own MySQL object and connects;
\* nothing in work catches a failure of this first connect.
WorkStart(w, ok) ==
    /\ pc[w] = "start"
    /\ mysql' = [p \in DOMAIN mysql \cup {w} |->
                   IF p = w THEN NewMySQL(w) ELSE mysql[p]]
    /\ connected' = [connected EXCEPT ![mysql'[w]] = ok]
    /\ pc' = [pc EXCEPT ![w] = IF ok THEN "head" ELSE "dead"]
    /\ UNCHANGED << exit_signal, config, inventory, workers, message,
                    rx_queue, produced, backend, taken >>

\* work, l.127 and l.167-168: the loop head.
WorkHead(w) ==
    /\ w \in WorkerIds
    /\ pc[w] = "head"
    /\ pc' = [pc EXCEPT ![w] = IF exit_signal THEN "returned" ELSE "get"]
    /\ UNCHANGED << exit_signal, config, inventory, workers, connected, mysql,
                    message, rx_queue, produced, backend, taken >>

\* work, l.128-131.
WorkGet(w) ==
    /\ w \in WorkerIds
    /\ pc[w] = "get"
    /\ Dequeue(w, "ping")
    /\ UNCHANGED << exit_signal, config, inventory, workers, connected, mysql,
                    produced, backend >>

\* work, l.132-135: EOFError or KeyboardInterrupt in get() breaks the loop.
WorkGetBreak(w) ==
    /\ w \in WorkerIds
    /\ pc[w] = "get"
    /\ pc' = [pc EXCEPT ![w] = "returned"]
    /\ UNCHANGED << exit_signal, config, inventory, workers, connected, mysql,
                    message, rx_queue, produced, backend, taken >>

\* WorkPing putting the message back on the queue when the probe fails.
WorkPing_Requeue(w, ok) ==
    /\ pc[w] = "ping"
    /\ connected' = [connected EXCEPT ![mysql[w]] = ok]
    /\ pc' = [pc EXCEPT ![w] = IF ok THEN "check" ELSE "rc_head"]
    /\ message' = [message EXCEPT ![w] = IF ok THEN @ ELSE NoMessage]
    /\ rx_queue' = IF ok THEN rx_queue ELSE Append(rx_queue, message[w])
    /\ UNCHANGED << exit_signal, config, inventory, mysql, workers, produced,
                    backend, taken >>

\* work, l.137-143: the health probe; OperationalError closes the connection.
WorkPing(w, ok) ==
    /\ pc[w] = "ping"
    /\ connected' = [connected EXCEPT ![mysql[w]] = ok]
    /\ pc' = [pc EXCEPT ![w] = IF ok THEN "check" ELSE "rc_head"]
    /\ UNCHANGED << exit_signal, config, inventory, mysql, workers, message,
                    rx_queue, produced, backend, taken >>

\* ReconnectHead as a "while True" loop.
ReconnectHead_IgnoresExit(w) ==
    /\ pc[w] = "rc_head"
    /\ pc' = [pc EXCEPT ![w] = "rc_connect"]
    /\ UNCHANGED << exit_signal, config, inventory, workers, connected, mysql,
                    message, rx_queue, produced, backend, taken >>

\* work, l.144: the head of the reconnect loop.
ReconnectHead(w) ==
    /\ pc[w] = "rc_head"
    /\ pc' = [pc EXCEPT ![w] = IF exit_signal THEN "check" ELSE "rc_connect"]
    /\ UNCHANGED << exit_signal, config, inventory, workers, connected, mysql,
                    message, rx_queue, produced, backend, taken >>

\* ReconnectAttempt leaving the loop after one failed attempt.
ReconnectAttempt_GivesUp(w, ok) ==
    /\ pc[w] = "rc_connect"
    /\ connected' = [connected EXCEPT ![mysql[w]] = ok]
    /\ pc' = [pc EXCEPT ![w] = IF ok THEN "rc_ok" ELSE "check"]
    /\ UNCHANGED << exit_signal, config, inventory, mysql, workers, message,
                    rx_queue, produced, backend, taken >>

\* work, l.145-146 and l.152-156: one reconnect attempt.
ReconnectAttempt(w, ok) ==
    /\ pc[w] = "rc_connect"
    /\ connected' = [connected EXCEPT ![mysql[w]] = ok]
    /\ pc' = [pc EXCEPT ![w] = IF ok THEN "rc_ok" ELSE "rc_sleep"]
    /\ UNCHANGED << exit_signal, config, inventory, mysql, workers, message,
                    rx_queue, produced, backend, taken >>

\* work, l.147-151: the connect returned; the worker logs and breaks out of
\* the reconnect loop.
ReconnectDone(w) ==
    /\ pc[w] = "rc_ok"
    /\ pc' = [pc EXCEPT ![w] = "check"]
    /\ UNCHANGED << exit_signal, config, inventory, workers, connected, mysql,
                    message, rx_queue, produced, backend, taken >>

\* work, l.157: time.sleep(5), then back to the reconnect loop head.
ReconnectSleep(w) ==
    /\ pc[w] = "rc_sleep"
    /\ pc' = [pc EXCEPT ![w] = "rc_head"]
    /\ UNCHANGED << exit_signal, config, inventory, workers, connected, mysql,
                    message, rx_queue, produced, backend, taken >>

\* WorkCheck without the test of l.159: the message is dispatched whatever
\* the exit signal is.
WorkCheck_IgnoresExit(w) ==
    /\ pc[w] = "check"
    /\ pc' = [pc EXCEPT ![w] = "map_recv"]
    /\ UNCHANGED << exit_signal, config, inventory, workers, connected, mysql,
                    message, rx_queue, produced, backend, taken >>

\* work, l.159: the message is mapped only if exit_signal is not set.
WorkCheck(w) ==
    /\ pc[w] = "check"
    /\ IF exit_signal
       THEN /\ pc' = [pc EXCEPT ![w] = "head"]
            /\ message' = [message EXCEPT ![w] = NoMessage]
       ELSE /\ pc' = [pc EXCEPT ![w] = "map_recv"]
            /\ UNCHANGED message
    /\ UNCHANGED << exit_signal, config, inventory, workers, connected, mysql,
                    rx_queue, produced, backend, taken >>

\* -------------------------------------------------------- the supervisor
\* worker.is_alive() for a Process object.
IsAlive(w) == pc[w] \notin {"unborn", "dead", "returned"}

\* _wait_for_exit, l.224-229: the for loop over workers.items(), from
\* position i on.  A value that is None has no is_alive attribute.
RECURSIVE ScanWorkers(_)
ScanWorkers(i) ==
    IF i > Len(workers) THEN "alive"
    ELSE IF workers[i] = None THEN "AttributeError"
    ELSE IF IsAlive(workers[i]) THEN ScanWorkers(i + 1)
    ELSE "dead"

\* _wait_for_exit, l.218: the loop head.
WaitHead ==
    /\ pc[Main] = "wait_head"
    /\ pc' = [pc EXCEPT ![Main] = IF exit_signal THEN "close" ELSE "wait_sleep"]
    /\ UNCHANGED << exit_signal, config, inventory, workers, connected, mysql,
                    message, rx_queue, produced, backend, taken >>

\* _wait_for_exit, l.222-229: sleep one interval, then look at the workers.
WaitPoll ==
    /\ pc[Main] = "wait_sleep"
    /\ LET seen == IF Len(workers) = 0 THEN "alive" ELSE ScanWorkers(1) IN
       /\ exit_signal' = (exit_signal \/ seen = "dead")
       /\ pc' = [pc EXCEPT
                   ![Main] = IF seen = "AttributeError" THEN "raised"
                             ELSE "wait_head"]
    /\ UNCHANGED << config, inventory, workers, connected, mysql, message,
                    rx_queue, produced, backend, taken >>

\* ------------------------------------------------------------------ next
\* The steps of a worker's own code, on messages of the classes in K.
WorkerStep(w, K) ==
    \/ \E ok \in BOOLEAN : WorkStart(w, ok)
    \/ WorkHead(w)
    \/ WorkGet(w)
    \/ \E ok \in BOOLEAN : WorkPing(w, ok)
    \/ ReconnectHead(w)
    \/ \E ok \in BOOLEAN : ReconnectAttempt(w, ok)
    \/ ReconnectDone(w)
    \/ ReconnectSleep(w)
    \/ WorkCheck(w)
    \/ \E ok \in BOOLEAN : MapReceived(w, ok)
    \/ \E k \in K, ok \in BOOLEAN : MapKind(w, k, ok)

\* The steps of the process that called run(), on messages of the classes
\* in K.
MainStep(K) ==
    \/ \E ok \in BOOLEAN : RunConnect(ok)
    \/ PoolSpawn
    \/ PoolWait
    \/ WaitHead
    \/ WaitPoll
    \/ OnDataHead
    \/ OnDataGet
    \/ \E ok \in BOOLEAN : MapReceived(Main, ok)
    \/ \E k \in K, ok \in BOOLEAN : MapKind(Main, k, ok)
    \/ RunClose

Next ==
    \/ Produce
    \/ OrchestratorStop
    \/ MainStep(SomeKinds)
    \/ \E w \in WorkerIds : WorkerStep(w, SomeKinds)
    \/ \E w \in WorkerIds : WorkGetBreak(w)

Spec == Init /\ [][Next]_vars

\* The operating system schedules every process and every timed wait ends
\* (the dequeue timeout, the connection timeout, the sleeps), so a process
\* that can take a step of its code eventually takes one.  Nothing makes the
\* decoder produce, the orchestrator stop the run, or get() be interrupted.
FairSpec ==
    /\ Spec
    /\ WF_vars(MainStep(SomeKinds))
    /\ \A w \in WorkerIds : WF_vars(WorkerStep(w, SomeKinds))

\* The single threaded observer, run(parallel=False), on messages of every
\* class: the router applied to each input it can get.
RouterInit == Init /\ ~parallel

RouterNext ==
    \/ Produce
    \/ OrchestratorStop
    \/ \E ok \in BOOLEAN : RunConnect(ok)
    \/ OnDataHead
    \/ OnDataGet
    \/ \E ok \in BOOLEAN : MapReceived(Main, ok)
    \/ \E k \in Kinds, ok \in BOOLEAN : MapKind(Main, k, ok)
    \/ RunClose

RouterSpec == RouterInit /\ [][RouterNext]_vars

\* ============================================================ inventory
\* management/inventory.py: one Inventory object and the calls a client
\* makes on it.  The result of a call is "None", "True" or "False" for what
\* it returned, or the name of the exception it raised.

Last(l) == l[Len(l)]

\* "if x" for an optional number: None and 0 are false.
Truth(x) == x # None /\ x[1] # 0

\* elapsed, l.99-103, raises TypeError when self._start is None: a datetime
\* minus None.
elapsed_raises == start = None

\* elapsed, l.99-103: the seconds from the start to the finish, or to now
\* when there is no finish yet.
elapsed ==
    IF elapsed_raises THEN << "TypeError" >>
    ELSE << (IF finish # None THEN finish[1] ELSE now) - start[1] >>

\* otaped_nodes looking at every event of a node, not at the latest one.
otaped_nodes_AnyEvent ==
    { a \in DOMAIN index :
        \E n \in 1..Len(index[a].events) :
          LET e == index[a].events[n] IN
            /\ "otap_min" \in DOMAIN e
            /\ \/ Some(e.otap_min) = target_otap_sequence
               \/ Some(e.otap_max) = target_otap_sequence }

\* otaped_nodes, l.335-347: a KeyError of the lookups is passed over.
otaped_nodes ==
    { a \in DOMAIN index :
        LET e == Last(index[a].events) IN
          /\ "otap_min" \in DOMAIN e
          /\ \/ Some(e.otap_min) = target_otap_sequence
             \/ Some(e.otap_max) = target_otap_sequence }

\* is_complete without the test of the frequency target.
is_complete_IgnoresFrequency ==
    IF target_nodes = {} THEN "False"
    ELSE IF target_nodes \subseteq nodes
    THEN (IF ~Truth(target_otap_sequence) THEN "True" ELSE "False")
    ELSE IF elapsed_raises THEN "TypeError"
    ELSE "False"

\* is_complete, l.235-250.  The arguments of the logger call in the else
\* branch are evaluated before the call, self.elapsed among them.
is_complete ==
    IF target_nodes = {} \/ target_frequency # inf THEN "False"
    ELSE IF target_nodes \subseteq nodes
    THEN (IF ~Truth(target_otap_sequence) THEN "True" ELSE "False")
    ELSE IF elapsed_raises THEN "TypeError"
    ELSE "False"

\* is_otaped, l.257-269.
is_otaped ==
    IF target_nodes = {} \/ target_otap_sequence = None THEN "False"
    ELSE IF ~(target_nodes \subseteq otaped_nodes)
    THEN (IF elapsed_raises THEN "TypeError" ELSE "False")
    ELSE "True"

\* frequency, l.353-358: the lookup of "otap_max" in the latest event of a
\* node raises KeyError when that event has no such key.
frequency_raises ==
    /\ Truth(target_otap_sequence)
    /\ \E a \in DOMAIN index : "otap_max" \notin DOMAIN Last(index[a].events)

\* frequency, l.349-362, with _account_for_target_nodes, l.295-299.
frequency ==
    [ a \in DOMAIN index \cup target_nodes |->
        IF a \notin DOMAIN index THEN 0
        ELSE IF Truth(target_otap_sequence)
        THEN Last(index[a].events).otap_max
        ELSE index[a].count ]

\* AtLeast taking a target that is left out as a target of 0.
AtLeast_NoTargetReached(x, tf) == tf = inf \/ x >= tf[1]

\* x >= self._target_frequency for a number x.
AtLeast(x, tf) == tf # inf /\ x >= tf[1]

\* is_frequency_reached without the test of l.276: with no target nodes
\* every node of the index is compared.
is_frequency_reached_NoTargetTest ==
    IF frequency_raises THEN "KeyError"
    ELSE IF \A a \in (IF target_nodes # {}
                      THEN DOMAIN frequency \cap target_nodes
                      ELSE DOMAIN frequency) :
              AtLeast(frequency[a], target_frequency)
    THEN "True"
    ELSE "False"

\* is_frequency_reached, l.276-285, with _filter_dict, l.287-293.
is_frequency_reached ==
    IF target_nodes = {} \/ target_frequency = None THEN "False"
    ELSE IF frequency_raises THEN "KeyError"
    ELSE IF \A a \in DOMAIN frequency \cap target_nodes :
              AtLeast(frequency[a], target_frequency)
    THEN "True"
    ELSE "False"

\* difference, l.301-303: the ^ of two sets.
difference == (nodes \ target_nodes) \cup (target_nodes \ nodes)

\* sorted(S) for a set of numbers.
RECURSIVE Sorted(_)
Sorted(S) ==
    IF S = {} THEN << >>
    ELSE LET m == CHOOSE x \in S : \A y \in S : x <= y IN
           << m >> \o Sorted(S \ {m})

\* frequency, l.351-362: the keys of the dict it returns, in the order they
\* were inserted, which is the order a dict is iterated in.  The loop of
\* l.353 inserts the keys of the index in ascending order; after it
\* _account_for_target_nodes (l.295-299) inserts the target nodes that are
\* not there yet.  The targets are a set: its small integers are iterated
\* in ascending order by CPython.
frequency_keys == Sorted(DOMAIN index) \o Sorted(target_nodes \ DOMAIN index)

\* frequency_by_value, l.371-374: the value of a node of the index.
Value(a) ==
    IF Truth(target_otap_sequence) THEN Last(index[a].events).otap_max
    ELSE index[a].count

\* The decimal digits of a natural number.
RECURSIVE Digits(_)
Digits(n) == IF n < 10 THEN << n >> ELSE Append(Digits(n \div 10), n % 10)

\* "{0:03}".format(n) without the padding.
Format03_Unpadded(n) == Digits(n)

\* "{0:03}".format(n), l.385: the digits of n, with zeros in front up to a
\* width of three.
Format03(n) ==
    LET d == Digits(n) IN
      IF Len(d) >= 3 THEN d
      ELSE [ i \in 1..(3 - Len(d)) |-> 0 ] \o d

\* frequency_by_value, l.364-387: the items of the OrderedDict, in their
\* order: one per value, in ascending order of the values (l.384), the key
\* "frequency_" followed by the formatted value, the nodes of that value.
\* The lookup of l.372 raises KeyError as the one of frequency does.
frequency_by_value ==
    LET values == Sorted({ Value(a) : a \in DOMAIN index }) IN
      [ n \in 1..Len(values) |->
          [ prefix |-> "frequency_",
            digits |-> Format03(values[n]),
            nodes |-> { a \in DOMAIN index : Value(a) = values[n] } ] ]

\* is_out_of_time comparing with < where the code has <=.
is_out_of_time_Strict ==
    IF deadline = None THEN "TypeError"
    ELSE IF deadline[1] - now < 0 THEN "True"
    ELSE "False"

\* is_out_of_time, l.220-228, with until, l.115-119: None minus a datetime
\* raises TypeError.
is_out_of_time ==
    IF deadline = None THEN "TypeError"
    ELSE IF deadline[1] - now <= 0 THEN "True"
    ELSE "False"

\* The number of events in the NodeRecords of the addresses 1..a.
RECURSIVE EventsUpTo(_)
EventsUpTo(a) ==
    IF a = 0 THEN 0
    ELSE (IF a \in DOMAIN index THEN Len(index[a].events) ELSE 0)
         + EventsUpTo(a - 1)

\* NodeRecord keeping the latest event only.
NodeRecord_LatestOnly(a, e, ts) ==
    IF a \in DOMAIN index
    THEN [ last_seen |-> ts, events |-> << e >>, count |-> index[a].count + 1 ]
    ELSE [ last_seen |-> ts, events |-> << e >>, count |-> 1 ]

\* The NodeRecord of address a after one more event e seen at ts, l.201-209.
NodeRecord(a, e, ts) ==
    IF a \in DOMAIN index
    THEN [ last_seen |-> ts,
           events |-> Append(index[a].events, e),
           count |-> index[a].count + 1 ]
    ELSE [ last_seen |-> ts, events |-> << e >>, count |-> 1 ]

\* add, l.171-213.  The address goes into self._nodes first (l.171); an
\* any(None) of the if chain raises before the index is touched.
Add(a, rss, otap, ts) ==
    /\ EventsUpTo(MaxAddress) < MaxEvents
    /\ nodes' = nodes \cup {a}
    /\ IF EventBranch(rss, otap) = "TypeError"
       THEN /\ ret' = [ result |-> "TypeError" ]
            /\ UNCHANGED index
       ELSE /\ index' = [ b \in DOMAIN index \cup {a} |->
                            IF b = a THEN NodeRecord(a, Event(rss, otap), ts)
                            ELSE index[b] ]
            /\ ret' = [ result |-> "None" ]
    /\ UNCHANGED << observer, targets, window, sequence, start, deadline,
                    finish, now >>

\* remove with set.discard in the place of set.remove, and a guarded del:
\* an address that is not there is passed over.
Remove_Discard(a) ==
    /\ nodes' = nodes \ {a}
    /\ index' = [ b \in DOMAIN index \ {a} |-> index[b] ]
    /\ ret' = [ result |-> "None" ]
    /\ UNCHANGED << observer, targets, window, sequence, start, deadline,
                    finish, now >>

\* remove, l.217-218: set.remove raises KeyError for an element that is not
\* in the set; del raises KeyError for a key that is not in the dict.
Remove(a) ==
    /\ IF a \notin nodes
       THEN /\ ret' = [ result |-> "KeyError" ]
            /\ UNCHANGED << nodes, index >>
       ELSE /\ nodes' = nodes \ {a}
            /\ IF a \notin DOMAIN index
               THEN /\ ret' = [ result |-> "KeyError" ]
                    /\ UNCHANGED index
               ELSE /\ index' = [ b \in DOMAIN index \ {a} |-> index[b] ]
                    /\ ret' = [ result |-> "None" ]
    /\ UNCHANGED << observer, targets, window, sequence, start, deadline,
                    finish, now >>

\* reset clearing the round of the session as well.
Reset_ClearsSequence ==
    /\ nodes' = {}
    /\ index' = << >>
    /\ start' = None
    /\ deadline' = None
    /\ finish' = None
    /\ sequence' = None
    /\ ret' = [ result |-> "None" ]
    /\ UNCHANGED << observer, targets, window, now >>

\* reset, l.126-134.
Reset ==
    /\ nodes' = {}
    /\ index' = << >>
    /\ start' = None
    /\ deadline' = None
    /\ finish' = None
    /\ ret' = [ result |-> "None" ]
    /\ UNCHANGED << observer, targets, window, sequence, now >>

\* wait without the reset() of l.139: the nodes, the index and the finish
\* of the round before are kept.
Wait_NoReset ==
    /\ start_delay # None => now + start_delay[1] <= MaxTime
    /\ IF start_delay = None
       THEN /\ ret' = [ result |-> "TypeError" ]
            /\ UNCHANGED << start, deadline, now >>
       ELSE /\ start' = Some(now + start_delay[1])
            /\ IF maximum_duration = None
               THEN /\ ret' = [ result |-> "TypeError" ]
                    /\ UNCHANGED << deadline, now >>
               ELSE /\ deadline' = Some(start'[1] + maximum_duration[1])
                    /\ ret' = [ result |-> "None" ]
                    /\ now' = now + start_delay[1]
    /\ UNCHANGED << observer, targets, window, sequence, nodes, index,
                    finish >>

\* wait, l.136-153: reset(), then the window from now on, then the sleep
\* until the start.  timedelta(seconds=None) raises TypeError.
Wait ==
    /\ start_delay # None => now + start_delay[1] <= MaxTime
    /\ nodes' = {}
    /\ index' = << >>
    /\ finish' = None
    /\ IF start_delay = None
       THEN /\ start' = None
            /\ deadline' = None
            /\ ret' = [ result |-> "TypeError" ]
            /\ UNCHANGED now
       ELSE /\ start' = Some(now + start_delay[1])
            /\ IF maximum_duration = None
               THEN /\ deadline' = None
                    /\ ret' = [ result |-> "TypeError" ]
                    /\ UNCHANGED now
               ELSE /\ deadline' = Some(start'[1] + maximum_duration[1])
                    /\ ret' = [ result |-> "None" ]
                    /\ now' = now + start_delay[1]
    /\ UNCHANGED << observer, targets, window, sequence >>

\* The poll with a frequency() that accounts for the target nodes never
\* seen in the index itself: each gets a NodeRecord with a count of 0.
Predicates_AccountsInIndex ==
    /\ ret' = [ is_complete |-> is_complete,
                is_otaped |-> is_otaped,
                is_frequency_reached |-> is_frequency_reached,
                is_out_of_time |-> is_out_of_time,
                difference |-> difference,
                frequency |->
                  IF frequency_raises THEN << "KeyError" >>
                  ELSE [ n \in 1..Len(frequency_keys) |->
                           << frequency_keys[n],
                              frequency[frequency_keys[n]] >> ],
                frequency_by_value |->
                  IF frequency_raises THEN << "KeyError" >>
                  ELSE frequency_by_value ]
    /\ index' = [ a \in DOMAIN index \cup target_nodes |->
                    IF a \in DOMAIN index THEN index[a]
                    ELSE [ last_seen |-> None, events |-> << >>,
                           count |-> 0 ] ]
    /\ UNCHANGED << observer, targets, window, nodes, start, deadline, finish,
                    sequence, now >>

\* The client's poll of a session: is_complete(), is_otaped(),
\* is_frequency_reached(), is_out_of_time(), difference(), frequency() and
\* frequency_by_value(), called one after the other.  None of them changes
\* what another one reads, so the calls are one step; the result of each is
\* kept: what it returned, or the name of the exception it raised.
Predicates ==
    /\ ret' = [ is_complete |-> is_complete,
                is_otaped |-> is_otaped,
                is_frequency_reached |-> is_frequency_reached,
                is_out_of_time |-> is_out_of_time,
                difference |-> difference,
                frequency |->
                  IF frequency_raises THEN << "KeyError" >>
                  ELSE [ n \in 1..Len(frequency_keys) |->
                           << frequency_keys[n],
                              frequency[frequency_keys[n]] >> ],
                frequency_by_value |->
                  IF frequency_raises THEN << "KeyError" >>
                  ELSE frequency_by_value ]
    /\ UNCHANGED << observer, targets, window, session, sequence, now >>

\* The sequence setter, l.110-113.
SetSequence(v) ==
    /\ sequence' = v
    /\ ret' = [ result |-> "None" ]
    /\ UNCHANGED << observer, targets, window, session, now >>

\* finish, l.121-124.
Finish ==
    /\ finish' = Some(now)
    /\ ret' = [ result |-> "None" ]
    /\ UNCHANGED << observer, targets, window, nodes, index, start, deadline,
                    sequence, now >>

\* A second goes by on the clock that datetime.datetime.utcnow() reads.
Tick ==
    /\ now < MaxTime
    /\ now' = now + 1
    /\ UNCHANGED << observer, targets, window, session, sequence, ret >>

\* An Inventory built with any arguments, next to an observer that is not
\* run.
InventoryInit ==
    /\ ObserverInit
    /\ ~parallel
    /\ n_workers = 1
    /\ \E tn \in TargetNodeArgs, tos \in TargetOtapArgs,
          tf \in TargetFrequencyArgs, w \in WindowArgs :
         InventoryNew(tn, tos, tf, w[1], w[2])

InventoryNext ==
    \/ \E a \in Addresses, rss \in RssInputs, otap \in OtapInputs,
          ts \in Timestamps : Add(a, rss, otap, ts)
    \/ \E a \in Addresses : Remove(a)
    \/ Reset
    \/ Wait
    \/ Predicates

InventorySpec == InventoryInit /\ [][InventoryNext]_vars

\* The timed sessions of a campaign: an Inventory with one target node and
\* any window, the clock, and a driver that names the round, waits for its
\* start, feeds observations with or without RSS samples, polls, finishes
\* and resets.
SessionInit ==
    /\ ObserverInit
    /\ ~parallel
    /\ n_workers = 1
    /\ \E sd \in DelayArgs, md \in DurationArgs :
         InventoryNew(Some({ 1 }), None, None, sd, md)

SessionNext ==
    \/ \E v \in SequenceArgs : SetSequence(v)
    \/ Wait
    \/ \E a \in Addresses, rss \in SessionRss, ts \in SessionTimestamps :
         Add(a, rss, None, ts)
    \/ Predicates
    \/ Finish
    \/ Tick
    \/ Reset

SessionSpec == SessionInit /\ [][SessionNext]_vars

\* ================================================================ claims
ReconnectPcs == { "rc_head", "rc_connect", "rc_sleep", "rc_ok" }
Stopped(p) == pc[p] \in { "unborn", "returned", "dead", "raised" }
Started == 1..Len(workers)
InQueue(i) == \E n \in 1..Len(rx_queue) : rx_queue[n] = i
Holders(i) == { p \in Procs : message[p] = i }

\* C1: in multi-worker mode, a monitoring pass of the supervisor (the sleep
\* of one interval and the look at the workers that follows it) that starts
\* with a started worker no longer alive and exit_signal unset ends with
\* exit_signal set; and a worker that finds exit_signal set at its loop head
\* stops there.
C1_SupervisorFailFast ==
    /\ [][ ( /\ pc[Main] = "wait_sleep"
             /\ pc'[Main] # "wait_sleep"
             /\ \E w \in Started : ~IsAlive(w) )
           => exit_signal' ]_vars
    /\ [][ \A w \in WorkerIds :
             (pc[w] = "head" /\ pc'[w] # "head" /\ exit_signal)
             => pc'[w] = "returned" ]_vars

\* C8: a failure of the first connect leads to the stop of the whole pool:
\* when run() has raised out of its own connect, exit_signal is set; and
\* when a worker has died in its first connect, the supervisor does not end
\* its watch without exit_signal being set.
C8_InitialConnectFailureStopsPool ==
    /\ (pc[Main] = "raised" /\ ~connected[Main]) => exit_signal
    /\ \A w \in Started :
         (pc[w] = "dead" /\ pc[Main] \in {"raised", "close", "returned"})
         => exit_signal

\* C5: every item is returned by at most one get(), is held by at most one
\* process, is no longer on the queue once taken, and is written at most
\* once to the received table and at most once to a kind-specific table.
C5_AtMostOnce ==
    \A i \in Items :
      /\ taken[i] <= 1
      /\ Cardinality(Holders(i)) <= 1
      /\ (taken[i] = 1) <=> (i <= produced /\ ~InQueue(i))
      /\ Holders(i) # {} => taken[i] = 1
      /\ received_packets[i] <= 1
      /\ Len(tables[i]) <= 1
      /\ (received_packets[i] > 0 \/ tables[i] # << >>) => taken[i] = 1

\* C5 witness: two workers hold one item each at the same time, one of them
\* writing it and the other one waiting in the reconnect loop.
C5_Witness ==
    \E v, w \in WorkerIds :
      /\ v # w
      /\ pc[v] = "map_kind" /\ pc[w] = "rc_sleep"
      /\ message[v] # NoMessage /\ message[w] # NoMessage
      /\ message[v] # message[w]

\* C10: once exit_signal is set, no step of run(), of the supervisor, of the
\* single threaded loop or of a worker clears it.
C10_ExitSignalMonotonic == [][exit_signal => exit_signal']_vars

\* C10 witness: a whole run of the pool ended with exit_signal set: two
\* workers wrote an item, saw the signal and returned, and run() closed its
\* connection and returned.
C10_Witness ==
    /\ exit_signal
    /\ pc[Main] = "returned"
    /\ Len(workers) = 2
    /\ \A w \in Started : pc[w] = "returned"
    /\ \E i \in Items : outcome[i] = "mapped"

\* C2: a worker whose health probe failed keeps the item it holds through
\* the whole reconnect wait: in the reconnect loop it holds an item that is
\* not on the queue, that nobody else holds and of which nothing has been
\* written or given up; no step of the probe or of the loop changes the item
\* or the queue; and once the reconnect succeeded the worker goes to the
\* check before the dispatch and from there, exit_signal being unset, to the
\* received write and then to the kind-specific write of that same item.
C2_HeldThroughReconnect ==
    /\ [](\A w \in WorkerIds :
            pc[w] \in ReconnectPcs =>
              /\ message[w] # NoMessage
              /\ ~InQueue(message[w])
              /\ Holders(message[w]) = {w}
              /\ received_packets[message[w]] = 0
              /\ tables[message[w]] = << >>
              /\ outcome[message[w]] = "none")
    /\ [][ \A w \in WorkerIds :
             /\ (pc[w] \in ReconnectPcs \cup {"ping"} /\ pc'[w] # pc[w])
                => (message'[w] = message[w] /\ rx_queue' = rx_queue)
             /\ (pc[w] = "rc_ok" /\ pc'[w] # pc[w])
                => (pc'[w] = "check" /\ connected[w])
             /\ (pc[w] = "check" /\ pc'[w] # pc[w] /\ ~exit_signal)
                => (pc'[w] = "map_recv" /\ message'[w] = message[w])
             /\ (pc[w] = "map_recv" /\ pc'[w] = "map_kind")
                => (message'[w] = message[w]
                    /\ received_packets'[message[w]] = 1) ]_vars

\* C2 witness: a worker has just reconnected, holding the item it held when
\* its probe failed.
C2_Witness ==
    \E w \in WorkerIds :
      pc[w] = "rc_ok" /\ message[w] # NoMessage /\ ~exit_signal

\* C3: the received write is the first write of every dispatch and is made
\* whatever the class: a kind-specific write is only ever made for, and
\* _map_message only ever returns for, an item that has its received row; a
\* process gets to the isinstance tests only by making the received write;
\* and no step (a failing kind-specific write included) takes a received
\* row away.
C3_ReceivedFirst ==
    /\ [](\A i \in Items :
            (tables[i] # << >> \/ outcome[i] = "mapped" \/ class[i] # "")
            => received_packets[i] = 1)
    /\ [](\A p \in Procs :
            pc[p] = "map_kind" => received_packets[message[p]] = 1)
    /\ [][ \A p \in Procs :
             (pc'[p] = "map_kind" /\ pc[p] # "map_kind")
             => /\ pc[p] = "map_recv"
                /\ received_packets'[message[p]]
                     = received_packets[message[p]] + 1 ]_vars
    /\ [][ \A i \in Items :
             received_packets'[i] >= received_packets[i] ]_vars

\* C3 witness: the kind-specific write of one item failed and its received
\* row is there; an item of a class without handler was mapped and has its
\* received row too.
C3_Witness ==
    \E i, j \in Items :
      /\ outcome[i] = "logged" /\ class[i] = "BootDiagnosticsMessage"
      /\ received_packets[i] = 1 /\ tables[i] = << >>
      /\ outcome[j] = "mapped" /\ class[j] = "GenericMessage"
      /\ received_packets[j] = 1 /\ tables[j] = << >>

\* The seven kinds of WorkItem and the write that belongs to each.
SevenKinds == Kinds \ {"GenericMessage"}
OwnWrite(k) ==
    CASE k = "AdvertiserMessage" -> "put_advertiser"
      [] k = "BootDiagnosticsMessage" -> "put_boot_diagnostics"
      [] k = "NeighborDiagnosticsMessage" -> "put_neighbor_diagnostics"
      [] k = "NodeDiagnosticsMessage" -> "put_node_diagnostics"
      [] k = "TestNWMessage" -> "put_testnw_measurements"
      [] k = "TrafficDiagnosticsMessage" -> "put_traffic_diagnostics"
      [] k = "DiagnosticsMessage" -> "put_diagnostics"
      [] OTHER -> "none"

\* C4: the router makes at most one kind-specific write for an item, a
\* kind-specific write made for an item is the write of the item's own
\* kind, and an item of one of the seven kinds that the router has mapped
\* has exactly that one write.
C4_RoutedToOwnWrite ==
    \A i \in Items :
      /\ Len(tables[i]) <= 1
      /\ tables[i] # << >> =>
           (class[i] \in SevenKinds /\ tables[i] = << OwnWrite(class[i]) >>)
      /\ (outcome[i] = "mapped" /\ class[i] \in SevenKinds) =>
           tables[i] = << OwnWrite(class[i]) >>

\* C4 witness: a BootDiagnostics item and a generic Diagnostics item were
\* both mapped.
C4_Witness ==
    \E i, j \in Items :
      /\ class[i] = "BootDiagnosticsMessage" /\ outcome[i] = "mapped"
      /\ class[j] = "DiagnosticsMessage" /\ outcome[j] = "mapped"

\* C6: a step of a worker in which a write of the dispatch fails logs the
\* failure, drops the item and takes the worker back to its loop head,
\* leaving the queue as it is; from its loop head the worker, exit_signal
\* being unset, goes to the next get(); and an item whose failure was logged
\* is never on the queue again, never held again and never written again.
C6_DispatchFailureDiscards ==
    /\ [][ \A w \in WorkerIds :
             /\ ( /\ pc[w] \in {"map_recv", "map_kind"}
                  /\ outcome[message[w]] = "none"
                  /\ outcome'[message[w]] \notin {"none", "mapped"} )
                => /\ outcome'[message[w]] = "logged"
                   /\ pc'[w] = "head"
                   /\ message'[w] = NoMessage
                   /\ rx_queue' = rx_queue
             /\ (pc[w] = "head" /\ pc'[w] # pc[w] /\ ~exit_signal)
                => pc'[w] = "get" ]_vars
    /\ [](\A i \in Items :
            outcome[i] = "logged" =>
              (~InQueue(i) /\ Holders(i) = {} /\ taken[i] = 1))
    /\ [][ \A i \in Items :
             outcome[i] = "logged" =>
               /\ outcome'[i] = "logged"
               /\ received_packets'[i] = received_packets[i]
               /\ tables'[i] = tables[i] ]_vars

\* C6 witness: the only worker of the pool logged the failure of one item
\* and now holds the next one.
C6_Witness ==
    /\ Len(workers) = 1 /\ n_workers = 2
    /\ outcome[1] = "logged"
    /\ pc[1] = "ping" /\ message[1] = 2

\* C7: a worker whose probe failed enters the reconnect loop; at the head of
\* the loop it leaves to the check before the dispatch if exit_signal is
\* set and makes an attempt otherwise; a failed attempt is followed by the
\* sleep and the sleep by the loop head; a successful one by the way out to
\* the same check.  The loop is left in no other way, and never with the
\* connection closed unless exit_signal is set.  From the check, exit_signal
\* being unset, the worker goes on to the dispatch, and every dispatch is
\* made on an open connection.
C7_ReconnectUntilSuccessOrExit ==
    /\ [][ \A w \in WorkerIds :
             /\ (pc[w] = "ping" /\ pc'[w] # pc[w])
                => pc'[w] = (IF connected'[w] THEN "check" ELSE "rc_head")
             /\ (pc[w] = "rc_head" /\ pc'[w] # pc[w])
                => pc'[w] = (IF exit_signal THEN "check" ELSE "rc_connect")
             /\ (pc[w] = "rc_connect" /\ pc'[w] # pc[w])
                => pc'[w] = (IF connected'[w] THEN "rc_ok" ELSE "rc_sleep")
             /\ (pc[w] = "rc_sleep" /\ pc'[w] # pc[w]) => pc'[w] = "rc_head"
             /\ (pc[w] \in ReconnectPcs /\ pc'[w] \notin ReconnectPcs)
                => (pc'[w] = "check" /\ (connected'[w] \/ exit_signal))
             /\ (pc[w] = "check" /\ pc'[w] # pc[w])
                => pc'[w] = (IF exit_signal THEN "head" ELSE "map_recv")
           ]_vars
    /\ [](\A w \in WorkerIds :
            pc[w] \in {"map_recv", "map_kind"} => connected[w])

\* C7 witness: the only worker of the pool, which mapped the first item, is
\* in the backoff sleep of the reconnect loop with the second item.
C7_Witness ==
    /\ Len(workers) = 1 /\ n_workers = 2
    /\ outcome[1] = "mapped"
    /\ pc[1] = "rc_sleep" /\ message[1] = 2
    /\ ~exit_signal

\* C9: once exit_signal is set, every worker, the single threaded loop and
\* the supervisor loop stop; a worker returns only from its loop head or out
\* of get(), holding nothing; and a process that is in the middle of a
\* dispatch takes the dispatch of its item to its end (the next write, or
\* the error of a write) whatever exit_signal is.
AllStopped == \A p \in Procs : Stopped(p)
C9_ShutdownTerminates ==
    /\ exit_signal ~> AllStopped
    /\ [][ \A w \in WorkerIds :
             /\ (pc'[w] = "returned" /\ pc[w] # "returned")
                => (pc[w] \in {"head", "get"} /\ message[w] = NoMessage)
             /\ (pc[w] = "map_recv" /\ pc'[w] # pc[w])
                => \/ pc'[w] = "map_kind"
                   \/ outcome'[message[w]] = "logged"
             /\ (pc[w] = "map_kind" /\ pc'[w] # pc[w])
                => outcome'[message[w]] \in {"mapped", "logged"} ]_vars

\* C9 witness: exit_signal was set while one worker was in the middle of a
\* dispatch and the other in the reconnect loop.
C9_Witness ==
    /\ exit_signal
    /\ \E v, w \in WorkerIds :
         pc[v] = "map_kind" /\ pc[w] \in {"rc_sleep", "rc_connect"}
    /\ pc[Main] = "wait_sleep"

\* C11: run(parallel=True, n_workers=N) starts exactly N - 1 workers (the
\* started workers are the entries of the workers dict, which is only filled
\* while the pool is being built and has N - 1 entries when the supervisor
\* takes over; no worker is started in single threaded mode), and every
\* process that has a MySQL object has one of its own: no two processes,
\* the process of run() with self.mysql included, go through the same
\* object.
C11_OwnConnectionPerWorker ==
    /\ [](\A w \in WorkerIds : (pc[w] # "unborn") <=> (w \in Started))
    /\ [](~parallel => Len(workers) = 0)
    /\ [][ /\ (pc[Main] = "pool" /\ pc'[Main] # "pool")
               => Len(workers) = n_workers - 1
           /\ (pc[Main] # "pool") => workers' = workers ]_vars
    /\ [](DOMAIN mysql =
            {Main} \cup { w \in WorkerIds : pc[w] \notin {"unborn", "start"} })
    /\ [](\A p, q \in DOMAIN mysql : p # q => mysql[p] # mysql[q])

\* C11 witness: run(parallel=True, n_workers=3) has its two workers, each
\* in a dispatch on its own connection, and the supervisor is watching.
C11_Witness ==
    /\ parallel /\ n_workers = 3 /\ Len(workers) = 2
    /\ pc[Main] = "wait_sleep"
    /\ \A w \in Started :
         pc[w] \in {"map_recv", "map_kind"} /\ connected[mysql[w]]

\* ------------------------------------------------- claims on the inventory
\* A step that is a call add(a, rss=rss, otap_sequence=otap).
AddCall(a, rss, otap) == \E ts \in Timestamps : Add(a, rss, otap, ts)
CountOf(a) == IF a \in DOMAIN index THEN index[a].count ELSE 0

\* C12: every add() call for an address counts: after the call the address
\* has a NodeRecord whose count is one more than before the call (1 for an
\* address without NodeRecord), whatever rss and otap_sequence are; and no
\* call of a predicate changes a count.
C12_CountIsNumberOfAdds ==
    [][ /\ \A a \in Addresses, rss \in RssInputs, otap \in OtapInputs :
             AddCall(a, rss, otap) =>
               /\ a \in DOMAIN index'
               /\ index'[a].count = CountOf(a) + 1
        /\ Predicates => index' = index ]_vars

\* What the caller supplied: a list that is given and not empty.
Supplied(l) == l # None /\ l[1] # << >>
ExpectedKeys(rss, otap) ==
    IF Supplied(rss) /\ Supplied(otap)
    THEN { "rss", "otap", "otap_min", "otap_max" }
    ELSE IF Supplied(rss) THEN { "rss" }
    ELSE IF Supplied(otap) THEN { "otap", "otap_min", "otap_max" }
    ELSE { "rss", "otap" }

\* C13: the event stored by an add() call that returns has the shape of
\* what was supplied: rss, otap, otap_min and otap_max for RSS with OTAP,
\* rss alone for RSS only, otap, otap_min and otap_max for OTAP only, and
\* no otap_min or otap_max when neither was supplied; otap_min and otap_max
\* are the least and the greatest element of the OTAP sequence.
C13_EventShapeMatchesSupplied ==
    [][ \A a \in Addresses, rss \in RssInputs, otap \in OtapInputs :
          (AddCall(a, rss, otap) /\ ret'.result = "None") =>
            LET e == Last(index'[a].events) IN
              /\ DOMAIN e = ExpectedKeys(rss, otap)
              /\ ("otap_min" \in DOMAIN e) <=> Supplied(otap)
              /\ Supplied(otap) =>
                    /\ e.otap_min = Min(otap[1])
                    /\ e.otap_max = Max(otap[1]) ]_vars

\* C14: an add() call with otap_sequence left out or empty returns, whatever
\* rss is (left out, empty or not empty), and leaves a NodeRecord of the
\* address with this call counted.
C14_AddWithoutOtapNeverFails ==
    [][ \A a \in Addresses, rss \in RssInputs, otap \in OtapInputs :
          (AddCall(a, rss, otap) /\ ~Supplied(otap)) =>
            /\ ret'.result = "None"
            /\ a \in DOMAIN index'
            /\ index'[a].count = CountOf(a) + 1 ]_vars

\* The latest event of a is one with OTAP data whose otap_min or otap_max
\* is the target.
LatestEventMatches(a) ==
    /\ a \in DOMAIN index
    /\ LET e == index[a].events[Len(index[a].events)] IN
         /\ "otap_min" \in DOMAIN e
         /\ e.otap_min = target_otap_sequence[1]
            \/ e.otap_max = target_otap_sequence[1]

\* C15: is_otaped() is true exactly when there are target nodes, the target
\* OTAP sequence is set, and the latest event of every target node has
\* otap_min or otap_max equal to the target; the events before the latest
\* one play no part.
C15_OtapedByLatestEvent ==
    (is_otaped = "True") <=>
      /\ target_nodes # {}
      /\ target_otap_sequence # None
      /\ \A a \in target_nodes : LatestEventMatches(a)

\* C15 witness: the targets are 1 and 2 and the target sequence is 1; the
\* latest event of node 1 has otap_max = 1, the one of node 2 otap_min = 1;
\* is_otaped() was called and returned True.
C15_Witness ==
    /\ target_nodes = {1, 2} /\ target_otap_sequence = Some(1)
    /\ DOMAIN index = {1, 2}
    /\ "otap_max" \in DOMAIN Last(index[1].events)
    /\ Last(index[1].events).otap_max = 1
    /\ Last(index[1].events).otap_min = 0
    /\ "otap_min" \in DOMAIN Last(index[2].events)
    /\ Last(index[2].events).otap_min = 1
    /\ Last(index[2].events).otap_max = 2
    /\ "is_otaped" \in DOMAIN ret /\ ret.is_otaped = "True"

\* C16: is_complete() is true exactly when there are target nodes, the
\* frequency target is unbounded, no target OTAP sequence is set (a target
\* of 0 is a set target) and every target node is in the observed set.
C16_CompleteIffCovered ==
    (is_complete = "True") <=>
      /\ target_nodes # {}
      /\ target_frequency = inf
      /\ target_otap_sequence = None
      /\ target_nodes \subseteq nodes

\* C17: with a finite frequency target is_complete() returns False,
\* whatever has been observed.
C17_FiniteFrequencyNeverComplete ==
    target_frequency # inf => is_complete = "False"

\* C17 witness: with a finite frequency target and no target OTAP sequence
\* both target nodes were observed, and is_complete() returned False.
C17_Witness ==
    /\ target_frequency # inf /\ target_otap_sequence = None
    /\ target_nodes = {1, 2} /\ DOMAIN index = {1, 2}
    /\ "is_complete" \in DOMAIN ret /\ ret.is_complete = "False"

\* The frequency value of a target node reaches the frequency target: the
\* otap_max of its latest event when a target OTAP sequence is set, its
\* count otherwise, 0 for a node never seen.
ReachesTarget(a) ==
    /\ target_frequency # inf
    /\ IF a \notin DOMAIN index THEN 0 >= target_frequency[1]
       ELSE IF target_otap_sequence # None
       THEN LET e == index[a].events[Len(index[a].events)] IN
              "otap_max" \in DOMAIN e /\ e.otap_max >= target_frequency[1]
       ELSE index[a].count >= target_frequency[1]

\* C18: is_frequency_reached() returns a boolean in every state, and it
\* returns true exactly when there are target nodes and the frequency value
\* of every one of them reaches the frequency target.
C18_FrequencyReached ==
    /\ is_frequency_reached \in { "True", "False" }
    /\ (is_frequency_reached = "True") <=>
         (target_nodes # {} /\ \A a \in target_nodes : ReachesTarget(a))

C20_DifferenceOfObservedAndTargets ==
    difference = (DOMAIN index \ target_nodes) \cup (target_nodes \ DOMAIN index)

Lost(i) ==
    /\ taken[i] > 0
    /\ Holders(i) = {}
    /\ ~InQueue(i)
    /\ outcome[i] = "none"
    /\ received_packets[i] = 0
    /\ tables[i] = << >>

\* C27: a worker goes from the test of l.159 on to the dispatch of the item
\* it holds only when the exit signal is not set at that test.  When the
\* signal is set there, the worker drops the item: nothing is written for
\* it and it is not put back into the queue; the worker then leaves its
\* loop at the loop head.  An item lost that way stays lost.
C27_DequeuedItemLostOnExit ==
    [][ /\ \A w \in WorkerIds :
             /\ (pc[w] = "check" /\ pc'[w] = "map_recv") => ~exit_signal
             /\ (pc[w] = "check" /\ exit_signal /\ pc'[w] # "check") =>
                   /\ pc'[w] = "head"
                   /\ message'[w] = NoMessage
                   /\ rx_queue' = rx_queue
                   /\ backend' = backend
                   /\ \E i \in Items : message[w] = i /\ Lost(i)'
             /\ (pc[w] = "head" /\ exit_signal /\ pc'[w] # "head") =>
                   pc'[w] = "returned"
        /\ \A i \in Items : Lost(i) => Lost(i)' ]_vars

\* C27 witness: an item was dequeued by a worker, the exit signal was set
\* before the worker's test, and the worker returned: the item is lost.
C27_Witness ==
    /\ exit_signal
    /\ \E i \in Items : Lost(i)
    /\ \A w \in DOMAIN workers : pc[w] = "returned"
    /\ workers # << >>

\* The sequence s is the beginning of the sequence t.
IsPrefix(s, t) ==
    /\ Len(s) <= Len(t)
    /\ \A n \in 1..Len(s) : s[n] = t[n]

\* A call that ends the session or takes a node out of it.
EndsRecords == (\E a \in Addresses : Remove(a)) \/ Reset \/ Wait

\* C28: over every other call, which is a call of add() (one that returns
\* or one that raises) or a call of the predicates and reports, every
\* NodeRecord stays, its count does not go down, and its events are the
\* events it had, followed by at most one new event.
C28_RecordsOnlyGrow ==
    [][ ~EndsRecords =>
          \A b \in DOMAIN index :
            /\ b \in DOMAIN index'
            /\ index'[b].count >= index[b].count
            /\ IsPrefix(index[b].events, index'[b].events)
            /\ Len(index'[b].events) <= Len(index[b].events) + 1 ]_vars

\* C28 witness: node 1 was seen twice with different data; its record has
\* both events in the order of the calls, and the predicates were called.
C28_Witness ==
    /\ 1 \in DOMAIN index
    /\ index[1].count = 2
    /\ index[1].events = << [ rss |-> << 5 >> ],
                            [ otap |-> << 1, 2 >>, otap_max |-> 2,
                              otap_min |-> 1 ] >>
    /\ "is_complete" \in DOMAIN ret

\* C29: in every state the observed node set is the set of the addresses
\* that have a NodeRecord.
C29_NodesAreIndexKeys == nodes = DOMAIN index

\* C30: in no state do is_complete() and is_otaped() both return true.
C30_CompleteAndOtapedExclusive ==
    ~(is_complete = "True" /\ is_otaped = "True")

\* x is the frequency value of a node that has a NodeRecord: the otap_max
\* of its latest event when a target OTAP sequence is set, its count
\* otherwise.
IsFrequencyValue(a, x) ==
    IF target_otap_sequence # None
    THEN LET e == index[a].events[Len(index[a].events)] IN
           "otap_max" \in DOMAIN e /\ x = e.otap_max
    ELSE x = index[a].count

\* C22: when frequency() returns, the keys of its mapping are the addresses
\* with a NodeRecord together with the target nodes, each once; they are
\* iterated in ascending order; a node with a NodeRecord has its frequency
\* value and a target never seen has 0.
C22_FrequencyInAscendingOrder ==
    ~frequency_raises =>
      /\ { frequency_keys[n] : n \in 1..Len(frequency_keys) }
            = DOMAIN index \cup target_nodes
      /\ \A n, m \in 1..Len(frequency_keys) :
            n < m => frequency_keys[n] < frequency_keys[m]
      /\ \A a \in DOMAIN index : IsFrequencyValue(a, frequency[a])
      /\ \A a \in target_nodes \ DOMAIN index : frequency[a] = 0

\* The number that a sequence of decimal digits writes.
RECURSIVE NumberOf(_)
NumberOf(d) ==
    IF d = << >> THEN 0
    ELSE 10 * NumberOf(SubSeq(d, 1, Len(d) - 1)) + d[Len(d)]

C24_OutOfTimeFromDeadlineOn ==
    [][ /\ deadline' # None =>
             (is_out_of_time' = "True" <=> now' >= deadline'[1])
        /\ (is_out_of_time = "True" /\ ~(Reset \/ Wait)) =>
             is_out_of_time' = "True" ]_vars

\* C24 witness: the window is one second long, the clock is at the deadline
\* and not beyond, and is_out_of_time() returned True.
C24_Witness ==
    /\ start # None /\ deadline # None
    /\ start[1] < deadline[1]
    /\ now = deadline[1]
    /\ "is_out_of_time" \in DOMAIN ret
    /\ ret.is_out_of_time = "True"

\* A session with nothing in it.
Cleared ==
    /\ nodes = {} /\ index = << >>
    /\ start = None /\ deadline = None /\ finish = None

\* C25: a reset() leaves no observed node, no NodeRecord, and no start,
\* deadline or finish; it leaves the targets and the sequence as they were;
\* and a reset() of a session that is clear changes nothing.
C25_ResetClearsSession ==
    [][ Reset =>
          /\ Cleared'
          /\ UNCHANGED << targets, sequence >>
          /\ Cleared => UNCHANGED << targets, window, session, sequence,
                                     now >> ]_vars

\* C25 witness: the round has a sequence and the clock has run to its end;
\* the session is clear, the target and the sequence are still there.
C25_Witness ==
    /\ Cleared
    /\ sequence = Some(1)
    /\ target_nodes = { 1 }
    /\ start_delay = Some(1) /\ maximum_duration = Some(1)
    /\ now = MaxTime
    /\ "result" \in DOMAIN ret /\ ret.result = "None"

\* C26: after every wait() that returns, start is the time of the call
\* plus start_delay and deadline is start plus maximum_duration; and in
\* every state with both, the deadline is after the start.
C26_DeadlineAfterStart ==
    [][ /\ (Wait /\ ret'.result = "None") =>
             /\ start' = Some(now + start_delay[1])
             /\ deadline' = Some(start'[1] + maximum_duration[1])
        /\ (start' # None /\ deadline' # None) =>
             deadline'[1] > start'[1] ]_vars

\* C31: once finish() has set the finish timestamp, no step other than a
\* reset() or a wait() changes it, a second finish() included; and with it
\* elapsed stays what it was.
C31_FinishSetOnce ==
    [][ (finish # None /\ ~(Reset \/ Wait)) =>
          /\ finish' = finish
          /\ elapsed' = elapsed ]_vars

\* C32: right after every wait(), one that raises included, there is no
\* NodeRecord, the observed set is empty and finish is not set: nothing
\* observed before the wait() is in the new round.
C32_WaitResetsFirst ==
    [][ Wait => (nodes' = {} /\ index' = << >> /\ finish' = None) ]_vars

\* C32 witness: a wait() called two seconds into the campaign returned;
\* the round starts there with nothing observed and no finish.
C32_Witness ==
    /\ start_delay = Some(0) /\ maximum_duration = Some(1)
    /\ start = Some(2) /\ deadline = Some(3) /\ now = 2
    /\ nodes = {} /\ index = << >> /\ finish = None
    /\ "result" \in DOMAIN ret /\ ret.result = "None"

\* C33: with no target nodes, is_complete(), is_otaped() and
\* is_frequency_reached() each return false, whatever was observed and
\* whatever the target OTAP sequence and the frequency target are.
C33_NoTargetsNeverConverged ==
    target_nodes = {} =>
      /\ is_complete = "False"
      /\ is_otaped = "False"
      /\ is_frequency_reached = "False"

\* C33 witness: no target nodes, a target OTAP sequence of 1; both nodes
\* were last seen with an otap_min or otap_max of 1, and the three
\* predicates returned False.
C33_Witness ==
    /\ target_nodes = {} /\ target_otap_sequence = Some(1)
    /\ DOMAIN index = {1, 2}
    /\ \A a \in {1, 2} : LatestEventMatches(a)
    /\ "is_complete" \in DOMAIN ret
    /\ ret.is_complete = "False"
    /\ ret.is_otaped = "False"
    /\ ret.is_frequency_reached = "False"

\* C34: the calls of the predicates and reports leave the observed node
\* set, every NodeRecord, the target nodes, the start and the deadline as
\* they were; no NodeRecord is made for a target node that frequency()
\* reports with 0.
C34_PollIsReadOnly ==
    [][ ("is_complete" \in DOMAIN ret' /\ Predicates) =>
          /\ UNCHANGED << nodes, index, target_nodes, start, deadline >>
          /\ \A a \in target_nodes \ DOMAIN index : a \notin DOMAIN index'
      ]_vars

\* C34 witness: node 2 was observed and target node 1 was not;
\* frequency() returned node 1 with 0, and node 1 has no NodeRecord and is
\* not in the observed set.
C34_Witness ==
    /\ target_nodes = {1} /\ nodes = {2} /\ DOMAIN index = {2}
    /\ "frequency" \in DOMAIN ret
    /\ ret.frequency = << << 2, 1 >>, << 1, 0 >> >>

\* C35: the count of every NodeRecord is the length of its events; after
\* an add() call for an address, the last_seen of its NodeRecord is the
\* timestamp of that call; and the last_seen of a NodeRecord changes by
\* such a call only.
C35_CountAndLastSeen ==
    [][ /\ \A a \in DOMAIN index' :
             index'[a].count = Len(index'[a].events)
        /\ \A a \in Addresses, rss \in SessionRss, ts \in SessionTimestamps :
             (Add(a, rss, None, ts) /\ a \in DOMAIN index') =>
               index'[a].last_seen = ts
        /\ \A a \in DOMAIN index \cap DOMAIN index' :
             index'[a].last_seen # index[a].last_seen =>
               \E rss \in SessionRss :
                 Add(a, rss, None, index'[a].last_seen) ]_vars

====
